---- MODULE Spec2Model ----
(***************************************************************************)
(* aldryn-events: the Event validity rules (Event.clean), the derived      *)
(* temporal properties (days, takes_single_day,                            *)
(* is_registration_deadline_passed), the EventCoordinator e-mail rule and  *)
(* the URL route table, modelled from aldryn_events/models.py and          *)
(* aldryn_events/urls.py.                                                  *)
(*                                                                         *)
(* Python values are modelled as follows.  A nullable field holds None     *)
(* (the empty tuple) or Some(v) (a one-element tuple); Python's truth test *)
(* `x` of a date, time or datetime is `x # None` (Python >= 3.5: midnight  *)
(* is truthy).  A calendar date is a record [y, m, d]; a time of day and a *)
(* datetime are instants on an integer axis.  A CharField/URLField is a    *)
(* string, whose truth test is `x # ""`.                                   *)
(***************************************************************************)
EXTENDS Integers, Sequences, FiniteSets

VARIABLES
    instance,       \* the in-memory Event object a property or clean() is called on
    outcome,        \* what the last call on `instance` returned or raised
    store,          \* the Event table: primary key -> persisted row
    cleaned,        \* primary keys whose last write went through clean()
    now,            \* timezone.now()
    path,           \* the request path handed to the URL resolver
    match,          \* the view the resolver chose for `path`
    coordinator,    \* the in-memory EventCoordinator object
    coordOutcome    \* what the last call on `coordinator` returned or raised

vars == <<instance, outcome, store, cleaned, now, path, match, coordinator, coordOutcome>>

----------------------------------------------------------------------------
(* Bounds of the model *)

\* each window of calendar dates holds the days Epoch .. Epoch + MaxDay
MaxDay == 2
\* times of day are 0 .. MaxTime (0 is midnight)
MaxTime == 1
\* datetimes (the clock and the registration deadline) are 0 .. MaxNow
MaxNow == 2
\* a request path has at most MaxSegs '/'-separated segments
MaxSegs == 3

----------------------------------------------------------------------------
(* Python values *)

None == <<>>
Some(v) == <<v>>
Val(o) == o[1]
Optional(S) == {None} \cup {Some(v) : v \in S}

\* datetime.date: the proleptic Gregorian calendar
IsLeap(y) == (y % 4 = 0) /\ ((y % 100 # 0) \/ (y % 400 = 0))

DaysInMonth(y, m) ==
    IF m = 2 THEN (IF IsLeap(y) THEN 29 ELSE 28)
    ELSE IF m \in {4, 6, 9, 11} THEN 30 ELSE 31

RECURSIVE DaysBeforeMonth(_, _)
DaysBeforeMonth(y, m) ==
    IF m = 1 THEN 0 ELSE DaysBeforeMonth(y, m - 1) + DaysInMonth(y, m - 1)

DaysBeforeYear(y) ==
    (y - 1) * 365 + ((y - 1) \div 4) - ((y - 1) \div 100) + ((y - 1) \div 400)

\* date.toordinal()
ToOrdinal(dt) == DaysBeforeYear(dt.y) + DaysBeforeMonth(dt.y, dt.m) + dt.d

\* date.__lt__: dates compare as (year, month, day)
DateLT(a, b) ==
    \/ a.y < b.y
    \/ a.y = b.y /\ a.m < b.m
    \/ a.y = b.y /\ a.m = b.m /\ a.d < b.d

\* (a - b).days: date.__sub__ is the difference of the ordinals
DateDiffDays(a, b) == ToOrdinal(a) - ToOrdinal(b)

\* the calendar dates of February and March 2024
Calendar ==
    {dt \in [y : {2024}, m : {2, 3}, d : 1..31] : dt.d <= DaysInMonth(dt.y, dt.m)}

\* the day after dt
NextDay(dt) ==
    IF dt.d < DaysInMonth(dt.y, dt.m) THEN [dt EXCEPT !.d = @ + 1]
    ELSE IF dt.m < 12 THEN [y |-> dt.y, m |-> dt.m + 1, d |-> 1]
    ELSE [y |-> dt.y + 1, m |-> 1, d |-> 1]

RECURSIVE AddDays(_, _)
AddDays(dt, k) == IF k = 0 THEN dt ELSE AddDays(NextDay(dt), k - 1)

\* the dates epoch .. epoch + n
Window(epoch, n) == {AddDays(epoch, k) : k \in 0..n}

\* a window across the leap day and the month boundary, and one at 2024-03-10
Dates ==
    Window([y |-> 2024, m |-> 2, d |-> 28], MaxDay)
        \cup Window([y |-> 2024, m |-> 3, d |-> 10], MaxDay)

Times == 0..MaxTime
Instants == 0..MaxNow
Links == {"", "http://x"}

----------------------------------------------------------------------------
(* Event *)

Events ==
    [start_date : Dates,
     start_time : Optional(Times),
     end_date : Optional(Dates),
     end_time : Optional(Times),
     register_link : Links,
     enable_registration : BOOLEAN,
     registration_deadline_at : Optional(Instants)]

Ok == "ok"
ErrDateOrder == "Start date should be before end date."
ErrTimesRequired == "When specifying identical start and end dates, please also provide the start and end time."
ErrTimeOrder == "For same start and end dates start time should be before end time."
ErrExclusive == "the registration system can't be active if there is an external registration link."
ErrDeadline == "please select a registration deadline."

\* clean_registration with the two checks in the other order
clean_registration_deadline_first(e) ==
    IF e.enable_registration /\ ~(e.registration_deadline_at # None)
    THEN ErrDeadline
    ELSE IF e.enable_registration /\ e.register_link # ""
    THEN ErrExclusive
    ELSE Ok

\* clean_registration without the deadline check
clean_registration_no_deadline(e) ==
    IF e.enable_registration /\ e.register_link # ""
    THEN ErrExclusive
    ELSE Ok

\* the registration checks of Event.clean
clean_registration(e) ==
    IF e.enable_registration /\ e.register_link # ""
    THEN ErrExclusive
    ELSE IF e.enable_registration /\ ~(e.registration_deadline_at # None)
    THEN ErrDeadline
    ELSE Ok

\* clean_dates without the `start_time == end_time` disjunct
clean_dates_equal_times_pass(e) ==
    IF e.end_date # None
    THEN IF DateLT(Val(e.end_date), e.start_date)
         THEN ErrDateOrder
         ELSE IF e.start_date = Val(e.end_date)
         THEN IF ~(e.end_time # None /\ e.start_time # None)
              THEN ErrTimesRequired
              ELSE IF Val(e.end_time) < Val(e.start_time)
              THEN ErrTimeOrder
              ELSE Ok
         ELSE Ok
    ELSE Ok

\* the date and time checks of Event.clean; Ok when none raises.  start_date
\* is a required field, so `self.start_date and self.end_date` is the test of
\* end_date alone.
clean_dates(e) ==
    IF e.end_date # None
    THEN IF DateLT(Val(e.end_date), e.start_date)
         THEN ErrDateOrder
         ELSE IF e.start_date = Val(e.end_date)
         THEN IF ~(e.end_time # None /\ e.start_time # None)
              THEN ErrTimesRequired
              ELSE IF Val(e.end_time) < Val(e.start_time)
                      \/ Val(e.start_time) = Val(e.end_time)
              THEN ErrTimeOrder
              ELSE Ok
         ELSE Ok
    ELSE Ok

\* Event.clean that never reaches the registration checks
clean_dates_only(e) == clean_dates(e)

\* Event.clean: the first ValidationError raised, or Ok
clean(e) ==
    IF clean_dates(e) # Ok THEN clean_dates(e) ELSE clean_registration(e)

\* DateField.to_python of a value that already is a date object
to_python(v) == v

\* Event.days
days(e) ==
    LET start == to_python(e.start_date)
        end_date == IF e.end_date # None THEN to_python(Val(e.end_date)) ELSE start
    IN DateDiffDays(end_date, start) + 1

\* Event.takes_single_day
takes_single_day(e) == days(e) = 1

\* is_registration_deadline_passed with `>=` for `>`
is_registration_deadline_passed_ge(e, t) ==
    ~(e.registration_deadline_at # None /\ Val(e.registration_deadline_at) >= t)

\* is_registration_deadline_passed with `<` for `>`
is_registration_deadline_passed_lt(e, t) ==
    ~(e.registration_deadline_at # None /\ Val(e.registration_deadline_at) < t)

\* Event.is_registration_deadline_passed, with timezone.now() = t
is_registration_deadline_passed(e, t) ==
    ~(e.registration_deadline_at # None /\ Val(e.registration_deadline_at) > t)

----------------------------------------------------------------------------
(* Calls on an in-memory Event *)

NoOutcome == [op |-> "none"]

IdleEvent == <<>>
IdleStore == <<>>
IdlePath == [segs |-> <<>>, tail |-> <<>>]
IdleCoordinator == <<>>
\* no path resolved yet
Unresolved == [view |-> "none", name |-> ""]

CallClean ==
    /\ outcome' = [op |-> "clean", value |-> clean(instance)]
    /\ UNCHANGED <<instance, store, cleaned, now, path, match, coordinator, coordOutcome>>

CallDays ==
    /\ outcome' = [op |-> "days", value |-> days(instance)]
    /\ instance' = [instance EXCEPT
                      !.start_date = to_python(@),
                      !.end_date = IF @ # None THEN Some(to_python(Val(@))) ELSE @]
    /\ UNCHANGED <<store, cleaned, now, path, match, coordinator, coordOutcome>>

CallTakesSingleDay ==
    /\ outcome' = [op |-> "takes_single_day", value |-> takes_single_day(instance)]
    /\ UNCHANGED <<instance, store, cleaned, now, path, match, coordinator, coordOutcome>>

CallDeadlinePassed ==
    /\ outcome' = [op |-> "is_registration_deadline_passed",
                   value |-> is_registration_deadline_passed(instance, now)]
    /\ UNCHANGED <<instance, store, cleaned, now, path, match, coordinator, coordOutcome>>

InitEvent ==
    /\ instance \in Events
    /\ outcome = NoOutcome
    /\ now \in Instants
    /\ store = IdleStore
    /\ cleaned = {}
    /\ path = IdlePath
    /\ match = Unresolved
    /\ coordinator = IdleCoordinator
    /\ coordOutcome = NoOutcome

NextEvent == CallClean \/ CallDays \/ CallTakesSingleDay \/ CallDeadlinePassed

SpecEvent == InitEvent /\ [][NextEvent]_vars

----------------------------------------------------------------------------
(* The Event table.  No operation on a row reads another row, so the table *)
(* is modelled with one primary key.  A write through a form runs          *)
(* full_clean(), which calls Event.clean and saves only when nothing       *)
(* raised; Event.objects.create(), save() and QuerySet.update() write the  *)
(* fields as given and never call Event.clean.  An edit replaces the date  *)
(* and time fields or the registration fields of the row.                  *)

Pks == {"pk1"}

\* the rows written in this part of the model: dates of the leap-day window
StoreDates == Window([y |-> 2024, m |-> 2, d |-> 28], MaxDay - 1)

StoreEvents ==
    [start_date : StoreDates,
     start_time : Optional(Times),
     end_date : Optional(StoreDates),
     end_time : Optional(Times),
     register_link : Links,
     enable_registration : BOOLEAN,
     registration_deadline_at : Optional(Instants)]

Put(pk, e) == [p \in DOMAIN store \cup {pk} |-> IF p = pk THEN e ELSE store[p]]

\* the values an edit of row `old` can submit: new date and time fields, or
\* new registration fields
Edits(old) ==
    {[old EXCEPT !.start_date = sd, !.start_time = st, !.end_date = ed, !.end_time = et] :
        sd \in StoreDates, st \in Optional(Times),
        ed \in Optional(StoreDates), et \in Optional(Times)}
    \cup
    {[old EXCEPT !.register_link = rl, !.enable_registration = er,
                 !.registration_deadline_at = rd] :
        rl \in Links, er \in BOOLEAN, rd \in Optional(Instants)}

\* a form creates a row: full_clean(), then save()
CreateValidated(pk, e) ==
    /\ pk \notin DOMAIN store
    /\ clean(e) = Ok
    /\ store' = Put(pk, e)
    /\ cleaned' = cleaned \cup {pk}
    /\ UNCHANGED <<instance, outcome, now, path, match, coordinator, coordOutcome>>

\* Event.objects.create(**fields): save() without clean()
CreateDirect(pk, e) ==
    /\ pk \notin DOMAIN store
    /\ store' = Put(pk, e)
    /\ cleaned' = cleaned \ {pk}
    /\ UNCHANGED <<instance, outcome, now, path, match, coordinator, coordOutcome>>

\* a form edits a row: full_clean(), then save()
UpdateValidated(pk, e) ==
    /\ pk \in DOMAIN store
    /\ clean(e) = Ok
    /\ store' = Put(pk, e)
    /\ cleaned' = cleaned \cup {pk}
    /\ UNCHANGED <<instance, outcome, now, path, match, coordinator, coordOutcome>>

\* event.save() or QuerySet.update(): no clean()
UpdateDirect(pk, e) ==
    /\ pk \in DOMAIN store
    /\ store' = Put(pk, e)
    /\ cleaned' = cleaned \ {pk}
    /\ UNCHANGED <<instance, outcome, now, path, match, coordinator, coordOutcome>>

Delete(pk) ==
    /\ pk \in DOMAIN store
    /\ store' = [p \in DOMAIN store \ {pk} |-> store[p]]
    /\ cleaned' = cleaned \ {pk}
    /\ UNCHANGED <<instance, outcome, now, path, match, coordinator, coordOutcome>>

\* time passes: timezone.now() never goes back
Tick ==
    /\ now < MaxNow
    /\ now' = now + 1
    /\ UNCHANGED <<instance, outcome, store, cleaned, path, match, coordinator, coordOutcome>>

InitStore ==
    /\ store = IdleStore
    /\ cleaned = {}
    /\ now = 0
    /\ instance = IdleEvent
    /\ outcome = NoOutcome
    /\ path = IdlePath
    /\ match = Unresolved
    /\ coordinator = IdleCoordinator
    /\ coordOutcome = NoOutcome

NextStore ==
    \/ \E pk \in Pks, e \in StoreEvents : CreateValidated(pk, e)
    \/ \E pk \in Pks, e \in StoreEvents : CreateDirect(pk, e)
    \/ \E pk \in DOMAIN store : \E e \in Edits(store[pk]) : UpdateValidated(pk, e)
    \/ \E pk \in DOMAIN store : \E e \in Edits(store[pk]) : UpdateDirect(pk, e)
    \/ \E pk \in Pks : Delete(pk)
    \/ Tick

SpecStore == InitStore /\ [][NextStore]_vars

----------------------------------------------------------------------------
(* urls.py.  The resolver is handed the request path below the prefix the  *)
(* app is mounted at.  A path is its '/'-terminated segments followed by   *)
(* the characters after its last '/' (the tail); a segment is a tuple of   *)
(* characters.  Every pattern of the table is anchored (^...$) and is a    *)
(* sequence of '/'-terminated groups that cannot match '/', so it matches  *)
(* a path exactly when the tail is empty and the groups match the segments *)
(* one by one.                                                             *)

DigitChars == {"0", "1", "2", "3", "4", "5", "6", "7", "8", "9"}
LetterChars ==
    {"a", "b", "c", "d", "e", "f", "g", "h", "i", "j", "k", "l", "m",
     "n", "o", "p", "q", "r", "s", "t", "u", "v", "w", "x", "y", "z"}
\* \w
WordChars == LetterChars \cup DigitChars \cup {"_"}

SegArchive == <<"a", "r", "c", "h", "i", "v", "e">>
SegGetDates == <<"g", "e", "t", "-", "d", "a", "t", "e", "s">>
SegReset == <<"r", "e", "s", "e", "t">>

\* the segments request paths are built from
Segments ==
    { SegArchive, SegGetDates, SegReset,
      <<"2", "0", "2", "4">>, <<"1", "2">>, <<"7">>, <<"1", "2", "3">>, <<"2", "0", "2", "4", "5">>,
      <<"m", "y", "-", "e", "v", "e", "n", "t">>, <<"a", "_", "b">>, <<"2", "a", "2", "4">>, <<"a", ".", "b">>, <<>> }

\* the tails: nothing, or characters not followed by '/'
Tails == { <<>>, SegReset }

Paths ==
    {[segs |-> ss, tail |-> tl] :
        ss \in UNION {[1..n -> Segments] : n \in 0..MaxSegs}, tl \in Tails}

\* the groups of the patterns
Unbounded == -1
Lit(seg) == [kind |-> "lit", seg |-> seg]
Digits(lo, hi) == [kind |-> "digits", lo |-> lo, hi |-> hi]
Slug == [kind |-> "slug"]

\* whether group g matches the whole segment seg
GroupMatches(g, seg) ==
    CASE g.kind = "lit" -> seg = g.seg
      [] g.kind = "digits" ->
            /\ Len(seg) >= g.lo
            /\ (g.hi = Unbounded \/ Len(seg) <= g.hi)
            /\ \A i \in 1..Len(seg) : seg[i] \in DigitChars
      [] g.kind = "slug" ->
            /\ Len(seg) >= 1
            /\ \A i \in 1..Len(seg) : seg[i] \in WordChars \cup {"_", "-"}

\* urlpatterns with the detail route moved before the year route
urlpatterns_detail_before_year ==
    << [segs |-> <<>>, view |-> "event_list", name |-> "events_list"],
       [segs |-> <<Lit(SegGetDates)>>, view |-> "event_dates", name |-> "get-calendar-dates"],
       [segs |-> <<Lit(SegGetDates), Digits(1, Unbounded), Digits(1, Unbounded)>>, view |-> "event_dates", name |-> "get-calendar-dates"],
       [segs |-> <<Slug>>, view |-> "event_detail", name |-> "events_detail"],
       [segs |-> <<Digits(4, 4)>>, view |-> "event_list", name |-> "events_list-by-year"],
       [segs |-> <<Digits(4, 4), Digits(1, 2)>>, view |-> "event_list", name |-> "events_list-by-month"],
       [segs |-> <<Digits(4, 4), Digits(1, 2), Digits(1, 2)>>, view |-> "event_list", name |-> "events_list-by-day"],
       [segs |-> <<Lit(SegArchive)>>, view |-> "event_list_archive", name |-> "events_list_archive"],
       [segs |-> <<Lit(SegArchive), Digits(4, 4)>>, view |-> "event_list_archive", name |-> "events_list_archive-by-year"],
       [segs |-> <<Lit(SegArchive), Digits(4, 4), Digits(1, 2)>>, view |-> "event_list_archive", name |-> "events_list_archive-by-month"],
       [segs |-> <<Slug, Lit(SegReset)>>, view |-> "reset_event_registration", name |-> "events_registration_reset"] >>

urlpatterns ==
    << [segs |-> <<>>, view |-> "event_list", name |-> "events_list"],
       [segs |-> <<Lit(SegGetDates)>>, view |-> "event_dates", name |-> "get-calendar-dates"],
       [segs |-> <<Lit(SegGetDates), Digits(1, Unbounded), Digits(1, Unbounded)>>, view |-> "event_dates", name |-> "get-calendar-dates"],
       [segs |-> <<Digits(4, 4)>>, view |-> "event_list", name |-> "events_list-by-year"],
       [segs |-> <<Digits(4, 4), Digits(1, 2)>>, view |-> "event_list", name |-> "events_list-by-month"],
       [segs |-> <<Digits(4, 4), Digits(1, 2), Digits(1, 2)>>, view |-> "event_list", name |-> "events_list-by-day"],
       [segs |-> <<Lit(SegArchive)>>, view |-> "event_list_archive", name |-> "events_list_archive"],
       [segs |-> <<Lit(SegArchive), Digits(4, 4)>>, view |-> "event_list_archive", name |-> "events_list_archive-by-year"],
       [segs |-> <<Lit(SegArchive), Digits(4, 4), Digits(1, 2)>>, view |-> "event_list_archive", name |-> "events_list_archive-by-month"],
       [segs |-> <<Slug>>, view |-> "event_detail", name |-> "events_detail"],
       [segs |-> <<Slug, Lit(SegReset)>>, view |-> "reset_event_registration", name |-> "events_registration_reset"] >>

\* re_path(...).resolve(path): the pattern matches the whole path
PatternMatches(pat, pth) ==
    /\ pth.tail = <<>>
    /\ Len(pth.segs) = Len(pat.segs)
    /\ \A i \in 1..Len(pat.segs) : GroupMatches(pat.segs[i], pth.segs[i])

Resolver404 == [view |-> "Resolver404", name |-> ""]

\* URLResolver.resolve: the first pattern of the table that matches
resolve(pth) ==
    LET hits == {i \in 1..Len(urlpatterns) : PatternMatches(urlpatterns[i], pth)}
    IN  IF hits = {} THEN Resolver404
        ELSE LET first == CHOOSE i \in hits : \A j \in hits : i <= j
             IN [view |-> urlpatterns[first].view, name |-> urlpatterns[first].name]

Resolve ==
    /\ match' = resolve(path)
    /\ UNCHANGED <<instance, outcome, store, cleaned, now, path, coordinator, coordOutcome>>

InitUrls ==
    /\ path \in Paths
    /\ match = Unresolved
    /\ instance = IdleEvent
    /\ outcome = NoOutcome
    /\ store = IdleStore
    /\ cleaned = {}
    /\ now = 0
    /\ coordinator = IdleCoordinator
    /\ coordOutcome = NoOutcome

NextUrls == Resolve

SpecUrls == InitUrls /\ [][NextUrls]_vars

----------------------------------------------------------------------------
(* EventCoordinator.  `user` is None (user_id is null) or Some(u), the     *)
(* linked account with its email and full name.                            *)

Emails == {"", "coordinator@example.com", "office@example.com"}
UserEmails == {"", "user@example.com"}
Names == {"", "Coordinator"}
UserNames == {"", "User Name"}
Users == [email : UserEmails, full_name : UserNames]

Coordinators == [name : Names, email : Emails, user : Optional(Users)]

ErrEmail == "Please define an email for the coordinator."

\* EventCoordinator.clean that only asks for a linked user
EventCoordinator_clean_any_user(c) ==
    IF c.email = ""
    THEN IF c.user = None THEN ErrEmail ELSE Ok
    ELSE Ok

\* EventCoordinator.clean: the ValidationError raised, or Ok
EventCoordinator_clean(c) ==
    IF c.email = ""
    THEN IF c.user = None \/ Val(c.user).email = "" THEN ErrEmail ELSE Ok
    ELSE Ok

\* EventCoordinator.get_email_address
get_email_address(c) ==
    IF c.email = "" /\ c.user # None THEN Val(c.user).email ELSE c.email

\* EventCoordinator.get_name
get_name(c) ==
    IF c.name = "" /\ c.user # None THEN Val(c.user).full_name ELSE c.name

\* EventCoordinator.__str__: full_name or email_address
EventCoordinator_str(c) ==
    IF get_name(c) # "" THEN get_name(c) ELSE get_email_address(c)

CallCoordinatorClean ==
    /\ coordOutcome' = [op |-> "clean", value |-> EventCoordinator_clean(coordinator)]
    /\ UNCHANGED <<instance, outcome, store, cleaned, now, path, match, coordinator>>

CallGetEmailAddress ==
    /\ coordOutcome' = [op |-> "get_email_address", value |-> get_email_address(coordinator)]
    /\ UNCHANGED <<instance, outcome, store, cleaned, now, path, match, coordinator>>

CallGetName ==
    /\ coordOutcome' = [op |-> "get_name", value |-> get_name(coordinator)]
    /\ UNCHANGED <<instance, outcome, store, cleaned, now, path, match, coordinator>>

CallCoordinatorStr ==
    /\ coordOutcome' = [op |-> "__str__", value |-> EventCoordinator_str(coordinator)]
    /\ UNCHANGED <<instance, outcome, store, cleaned, now, path, match, coordinator>>

InitCoordinator ==
    /\ coordinator \in Coordinators
    /\ coordOutcome = NoOutcome
    /\ instance = IdleEvent
    /\ outcome = NoOutcome
    /\ store = IdleStore
    /\ cleaned = {}
    /\ now = 0
    /\ path = IdlePath
    /\ match = Unresolved

NextCoordinator ==
    CallCoordinatorClean \/ CallGetEmailAddress \/ CallGetName \/ CallCoordinatorStr

SpecCoordinator == InitCoordinator /\ [][NextCoordinator]_vars

----------------------------------------------------------------------------
(* The data model's invariants 1-4, stated on the ordinal of a date *)

SameDay(e) == e.end_date # None /\ ToOrdinal(Val(e.end_date)) = ToOrdinal(e.start_date)

Invariant1(e) ==
    e.end_date # None => ToOrdinal(Val(e.end_date)) >= ToOrdinal(e.start_date)

Invariant2(e) ==
    SameDay(e) =>
        /\ e.start_time \in {Some(t) : t \in Times}
        /\ e.end_time \in {Some(t) : t \in Times}
        /\ Val(e.start_time) < Val(e.end_time)

Invariant3(e) == ~(e.enable_registration /\ e.register_link \in Links \ {""})

Invariant4(e) ==
    e.enable_registration => e.registration_deadline_at \in {Some(t) : t \in Instants}

Invariants(e) == Invariant1(e) /\ Invariant2(e) /\ Invariant3(e) /\ Invariant4(e)

----------------------------------------------------------------------------
(* Claims about Event.clean and the derived properties (SpecEvent) *)

\* C2: Event.clean returns Ok exactly when the four invariants of the data
\* model hold of the event, and raises ValidationError exactly when at least
\* one of them is violated.
C2_CleanIffInvariants ==
    outcome.op = "clean" => (outcome.value = Ok <=> Invariants(instance))

C2_Witness ==
    /\ outcome.op = "clean"
    /\ outcome.value = Ok
    /\ SameDay(instance)
    /\ instance.enable_registration

\* The error the claimed order of the rules gives: the first violated rule of
\* date order, same-day missing times, same-day time order, registration with
\* a link, registration without a deadline.
FirstViolatedRule(e) ==
    IF ~Invariant1(e) THEN ErrDateOrder
    ELSE IF SameDay(e) /\ (e.start_time = None \/ e.end_time = None) THEN ErrTimesRequired
    ELSE IF SameDay(e) /\ ~(Val(e.start_time) < Val(e.end_time)) THEN ErrTimeOrder
    ELSE IF ~Invariant3(e) THEN ErrExclusive
    ELSE IF ~Invariant4(e) THEN ErrDeadline
    ELSE Ok

\* C3: Event.clean reports one error, the one of the first violated rule in
\* the fixed order; every event whose end date is before its start date fails
\* with the date-ordering error whatever its other fields are.
C3_FirstViolatedRuleReported ==
    outcome.op = "clean" =>
        /\ outcome.value = FirstViolatedRule(instance)
        /\ (~Invariant1(instance) => outcome.value = ErrDateOrder)

C3_Witness ==
    /\ outcome.op = "clean"
    /\ ~Invariant3(instance)
    /\ ~Invariant4(instance)
    /\ ~Invariant1(instance)
    /\ outcome.value = ErrDateOrder

TimeErrors == {ErrTimesRequired, ErrTimeOrder}

\* C4: for an event with start_date = end_date, Event.clean fails when
\* start_time is missing, when end_time is missing and when start_time >=
\* end_time (equal times included); it passes the date and time rules only when
\* both times are set and start_time is strictly before end_time.
C4_SameDayNeedsOrderedTimes ==
    (outcome.op = "clean" /\ SameDay(instance)) =>
        LET bad == \/ instance.start_time = None
                   \/ instance.end_time = None
                   \/ Val(instance.start_time) >= Val(instance.end_time)
        IN  /\ bad => outcome.value \in TimeErrors
            /\ ~bad => outcome.value \notin (TimeErrors \cup {ErrDateOrder})

C4_Witness ==
    /\ outcome.op = "clean"
    /\ SameDay(instance)
    /\ instance.start_time # None
    /\ instance.start_time = instance.end_time
    /\ outcome.value = ErrTimeOrder

\* C5: for every event, whatever its start_date and optional end_date, the
\* derived property days is at least 1.
C5_DaysAtLeastOne ==
    outcome.op = "days" => outcome.value >= 1

\* the calendar dates d with a <= d <= b
DatesOfSpan(a, b) == {dt \in Calendar : ~DateLT(dt, a) /\ ~DateLT(b, dt)}

EffectiveEndDate(e) == IF e.end_date # None THEN Val(e.end_date) ELSE e.start_date

ScenarioB ==
    [start_date |-> [y |-> 2024, m |-> 3, d |-> 10],
     start_time |-> None,
     end_date |-> Some([y |-> 2024, m |-> 3, d |-> 12]),
     end_time |-> None,
     register_link |-> "",
     enable_registration |-> FALSE,
     registration_deadline_at |-> None]

\* C6: days is the number of calendar dates in the inclusive span from
\* start_date to the effective end date (end_date if set, else start_date): 1
\* when end_date is unset, 3 for 2024-03-10 .. 2024-03-12; takes_single_day is
\* true exactly when days is 1.
C6_DaysCountsSpan ==
    /\ outcome.op = "days" =>
        /\ outcome.value =
              Cardinality(DatesOfSpan(instance.start_date, EffectiveEndDate(instance)))
        /\ (instance.end_date = None => outcome.value = 1)
        /\ (instance = ScenarioB => outcome.value = 3)
    /\ outcome.op = "takes_single_day" =>
        (outcome.value <=>
            Cardinality(DatesOfSpan(instance.start_date, EffectiveEndDate(instance))) = 1)

\* C7: is_registration_deadline_passed is true when registration_deadline_at
\* is unset and when it is a timestamp <= now; it is false only when the
\* deadline is strictly after now.
C7_DeadlinePassedTruthTable ==
    outcome.op = "is_registration_deadline_passed" =>
        (outcome.value <=>
            \/ instance.registration_deadline_at = None
            \/ \E t \in Instants : instance.registration_deadline_at = Some(t) /\ t <= now)

C7_Witness ==
    /\ outcome.op = "is_registration_deadline_passed"
    /\ instance.registration_deadline_at = Some(now)
    /\ outcome.value = TRUE

----------------------------------------------------------------------------
(* Claims about the Event table (SpecStore) *)

DeadlineReached(e, t) ==
    \E d \in Instants : e.registration_deadline_at = Some(d) /\ d <= t

\* C10: while an event's registration_deadline_at is not modified and the
\* clock only advances, is_registration_deadline_passed never goes from true
\* back to false; for a validated event with enable_registration the deadline
\* is set, registration is open until now reaches it and passed from then on.
C10_DeadlinePassedIsStable ==
    /\ [][\A pk \in DOMAIN store \cap DOMAIN store' :
            (/\ store'[pk].registration_deadline_at = store[pk].registration_deadline_at
             /\ is_registration_deadline_passed(store[pk], now))
            => is_registration_deadline_passed(store'[pk], now')]_vars
    /\ [](\A pk \in DOMAIN store \cap cleaned :
            store[pk].enable_registration =>
                /\ store[pk].registration_deadline_at # None
                /\ is_registration_deadline_passed(store[pk], now)
                       <=> DeadlineReached(store[pk], now))

C10_Witness ==
    \E pk \in DOMAIN store \cap cleaned :
        /\ store[pk].enable_registration
        /\ store[pk].registration_deadline_at = Some(1)
        /\ now > 1
        /\ is_registration_deadline_passed(store[pk], now)

----------------------------------------------------------------------------
(* Claims about the route table (SpecUrls) *)

Resolved == match # Unresolved

\* a slug as the claim defines it: one or more word characters, '_' or '-'
IsSlug(seg) ==
    /\ seg # <<>>
    /\ \A i \in DOMAIN seg : seg[i] \in WordChars \cup {"_", "-"}

IsSlugPath(pth) == pth.tail = <<>> /\ Len(pth.segs) = 1 /\ IsSlug(pth.segs[1])

IsResetPath(pth) ==
    pth.tail = <<>> /\ Len(pth.segs) = 2 /\ IsSlug(pth.segs[1]) /\ pth.segs[2] = SegReset

IsYear(seg) == Len(seg) = 4 /\ \A i \in DOMAIN seg : seg[i] \in DigitChars

\* C8 as stated: every path '<slug>/' resolves to the event detail view and
\* every path '<slug>/reset/' to the registration reset view.
C8_SlugPathsReachDetail ==
    Resolved =>
        /\ IsSlugPath(path) => match.view = "event_detail"
        /\ IsResetPath(path) => match.view = "reset_event_registration"

\* C8 amended: a path '<slug>/' resolves to the event detail view unless the
\* slug is four digits (the list of that year), 'archive' (the archive list) or
\* 'get-dates' (the calendar dates), which earlier routes take; every path
\* '<slug>/reset/' resolves to the registration reset view.
C8_SlugPathsReachDetailUnlessShadowed ==
    Resolved =>
        /\ IsSlugPath(path) =>
              match.view = (IF IsYear(path.segs[1]) THEN "event_list"
                            ELSE IF path.segs[1] = SegArchive THEN "event_list_archive"
                            ELSE IF path.segs[1] = SegGetDates THEN "event_dates"
                            ELSE "event_detail")
        /\ IsResetPath(path) => match.view = "reset_event_registration"

C8_Witness ==
    /\ Resolved
    /\ IsSlugPath(path)
    /\ IsYear(path.segs[1])
    /\ match.name = "events_list-by-year"

----------------------------------------------------------------------------
(* Claims about EventCoordinator (SpecCoordinator) *)

HasUserEmail(c) == \E u \in Users : c.user = Some(u) /\ u.email \in UserEmails \ {""}

\* C9: EventCoordinator.clean fails exactly when the explicit email is empty
\* and there is no linked user with a non-empty email; every coordinator that
\* passes it has a non-empty email_address, the explicit email if set and the
\* linked user's email otherwise.
C9_CoordinatorHasEmail ==
    /\ coordOutcome.op = "clean" =>
          (coordOutcome.value = ErrEmail
              <=> (coordinator.email \notin Emails \ {""} /\ ~HasUserEmail(coordinator)))
    /\ (coordOutcome.op = "get_email_address" /\ EventCoordinator_clean(coordinator) = Ok) =>
          /\ coordOutcome.value # ""
          /\ coordinator.email # "" => coordOutcome.value = coordinator.email
          /\ coordinator.email = "" => coordOutcome.value = Val(coordinator.user).email

C9_Witness ==
    /\ coordOutcome.op = "get_email_address"
    /\ EventCoordinator_clean(coordinator) = Ok
    /\ coordinator.email = ""
    /\ coordOutcome.value = "user@example.com"

====
